---- MODULE Spec2Model ----
(***************************************************************************)
(* Model of src/owned.rs: the Owned<T> adapter, a single-field struct that  *)
(* stores a Copy value inline and hands out references to that one slot,    *)
(* together with the ClearOnDrop wrapper it is plugged into and the         *)
(* end-to-end test `tests::owned`.                                          *)
(*                                                                         *)
(* Memory is a sequence of u16 cells; an address is an index into it and    *)
(* 0 is the null address.  A reference is the address of the first cell of  *)
(* its referent.  T is instantiated with arrays [u16; n], a value of T is a *)
(* sequence of n cells (index i of the array is position i+1).              *)
(***************************************************************************)
EXTENDS Integers, Sequences, FiniteSets, TLC

\* ---- bounds of the model ----
MaxVal == 1        \* cells of the API specification hold 0..MaxVal
ArrLen == 2        \* T = [u16; ArrLen] in the API specification
MaxNew == 3        \* constructions (new/default) in one run
MaxGarbage == 7    \* a read of released storage yields one of 0..MaxGarbage

\* ---- constants of the program ----
N == 7             \* length of the array of tests::owned
TestIdx == 5       \* key[5] = 3
TestVal == 3       \* key[5] = 3
Field0Offset == 0  \* Owned<T>(T): the sole field sits at the start of the struct
PlaceOffset == 0   \* ClearOnDrop { _place: P }: the sole field sits at the start

Null == 0
Dead == -1         \* content of a cell whose storage has been released

Objs == {"a", "b"}
Cells == 0..MaxVal
Values == [1..ArrLen -> Cells]
TestArr == <<1, 2, 3, 4, 5, 6, 7>>

VARIABLES
    mem,     \* the memory: a sequence of cells, Dead where storage is released
    objs,    \* API specification: binding -> address of its Owned, or Null
    hist,    \* API specification: per binding, what the caller did to it
    ret,     \* what the last operation returned
    news,    \* number of constructions so far
    pc,      \* tests::owned: position in the test
    key,     \* tests::owned: address of the binding `key`
    place,   \* tests::owned: the captured raw pointer
    idx,     \* tests::owned: loop variable i
    moved    \* tests::owned: whether mem::drop(key) was executed

vars == <<mem, objs, hist, ret, news, pc, key, place, idx, moved>>

\* ---- memory ----

Zeros(n) == [i \in 1..n |-> 0]

\* Allocate n fresh cells holding v at the end of memory; the new base address.
AllocBase(m) == Len(m) + 1
Alloc(m, v) == m \o v

\* Read one cell through a pointer.
Peek(m, p) == IF p \in DOMAIN m THEN m[p] ELSE Dead

\* Read n cells through a pointer.
Load(m, p, n) == [i \in 1..n |-> Peek(m, p + i - 1)]

\* Write the cells of v through a pointer.
Store(m, p, v) ==
    [a \in DOMAIN m |-> IF a >= p /\ a < p + Len(v) THEN v[a - p + 1] ELSE m[a]]

\* Write one cell through a pointer.
Poke(m, p, x) == [a \in DOMAIN m |-> IF a = p THEN x ELSE m[a]]

\* Release n cells: their content becomes indeterminate.
Release(m, p, n) ==
    [a \in DOMAIN m |-> IF a >= p /\ a < p + n THEN Dead ELSE m[a]]

\* ---- the operations of T = [u16; n] that Owned delegates to ----

T_default(n) == Zeros(n)

T_eq(a, b) == \A i \in 1..Len(a) : a[i] = b[i]
T_ne(a, b) == \E i \in 1..Len(a) : a[i] # b[i]

\* Lexicographic comparison of two arrays of the same length.
T_cmp(a, b) ==
    LET d == {i \in 1..Len(a) : a[i] # b[i]}
    IN  IF d = {} THEN "Equal"
        ELSE LET k == CHOOSE i \in d : \A j \in d : i <= j
             IN  IF a[k] < b[k] THEN "Less" ELSE "Greater"

T_partial_cmp(a, b) == <<"Some", T_cmp(a, b)>>
T_lt(a, b) == T_cmp(a, b) = "Less"
T_le(a, b) == T_cmp(a, b) \in {"Less", "Equal"}
T_gt(a, b) == T_cmp(a, b) = "Greater"
T_ge(a, b) == T_cmp(a, b) \in {"Greater", "Equal"}

\* Hash for an array feeds the hasher the length, then every element.
T_hash(v, state) == state \o <<Len(v)>> \o v

\* Decimal digits of a u16.
Digit(d) == <<"0", "1", "2", "3", "4", "5", "6", "7", "8", "9">>[d + 1]
RECURSIVE U16ToStr(_)
U16ToStr(x) == IF x < 10 THEN <<Digit(x)>>
               ELSE U16ToStr(x \div 10) \o <<Digit(x % 10)>>

\* Debug for an array is debug_list: "[1, 2]", or one entry per line
\* under the alternate flag {:#?}.  A formatter is [alternate, buf].
RECURSIVE DebugEntries(_, _, _)
DebugEntries(v, i, alt) ==
    IF i > Len(v) THEN <<>>
    ELSE (IF alt THEN <<" ", " ", " ", " ">> \o U16ToStr(v[i]) \o <<",", "\n">>
          ELSE (IF i > 1 THEN <<",", " ">> ELSE <<>>) \o U16ToStr(v[i]))
         \o DebugEntries(v, i + 1, alt)

T_fmt(v, f) ==
    [f EXCEPT !.buf = @ \o <<"[">>
                        \o (IF f.alternate /\ Len(v) > 0 THEN <<"\n">> ELSE <<>>)
                        \o DebugEntries(v, 1, f.alternate) \o <<"]">>]

\* ---- Owned<T> ----

\* pub struct Owned<T>(T): the struct value and its image in memory.
\* mutant: the slot is filled with T's default instead of the argument
Owned_new_zeroed(t) == [f0 |-> T_default(Len(t))]
Owned_new(t) == [f0 |-> t]
\* mutant: the slot is filled with ones instead of T's default
Owned_default_ones(n) == [f0 |-> [i \in 1..n |-> 1]]
Owned_default(n) == [f0 |-> T_default(n)]
OwnedBytes(o) == o.f0

\* The six accessors: each returns &self.0 or &mut self.0.
deref(self) == self + Field0Offset
\* mutant: the reference is one element past the slot
deref_mut_shifted(self) == self + Field0Offset + 1
deref_mut(self) == self + Field0Offset
as_ref(self) == self + Field0Offset
\* mutant: the reference is one element past the slot
as_mut_shifted(self) == self + Field0Offset + 1
as_mut(self) == self + Field0Offset
\* mutant: the reference is one element past the slot
borrow_shifted(self) == self + Field0Offset + 1
borrow(self) == self + Field0Offset
borrow_mut(self) == self + Field0Offset

ReadAcc == {"deref", "as_ref", "borrow"}
WriteAcc == {"deref_mut", "as_mut", "borrow_mut"}

Ref(acc, self) ==
    CASE acc = "deref" -> deref(self)
      [] acc = "as_ref" -> as_ref(self)
      [] acc = "borrow" -> borrow(self)
      [] acc = "deref_mut" -> deref_mut(self)
      [] acc = "as_mut" -> as_mut(self)
      [] acc = "borrow_mut" -> borrow_mut(self)

\* The delegated traits: each reads self.0 (and other.0) and calls T's operation.
\* mutant: what #[derive(Debug)] prints, Owned(..) around the value
Owned_fmt_derived(m, self, n, f) ==
    [T_fmt(Load(m, self + Field0Offset, n), f) EXCEPT !.buf = <<"Owned", "(">> \o @ \o <<")">>]
Owned_fmt(m, self, n, f) == T_fmt(Load(m, self + Field0Offset, n), f)

\* mutant: the pointer is hashed, as Hash for a raw pointer does
Owned_hash_addr(m, self, n, state) == state \o <<self>>
Owned_hash(m, self, n, state) == T_hash(Load(m, self + Field0Offset, n), state)

\* mutant: identity of the two containers instead of their contents
Owned_eq_addr(m, self, other, n) == self = other
Owned_eq(m, self, other, n) ==
    T_eq(Load(m, self + Field0Offset, n), Load(m, other + Field0Offset, n))
Owned_ne(m, self, other, n) ==
    T_ne(Load(m, self + Field0Offset, n), Load(m, other + Field0Offset, n))
Owned_partial_cmp(m, self, other, n) ==
    T_partial_cmp(Load(m, self + Field0Offset, n), Load(m, other + Field0Offset, n))
Owned_lt(m, self, other, n) ==
    T_lt(Load(m, self + Field0Offset, n), Load(m, other + Field0Offset, n))
Owned_le(m, self, other, n) ==
    T_le(Load(m, self + Field0Offset, n), Load(m, other + Field0Offset, n))
Owned_gt(m, self, other, n) ==
    T_gt(Load(m, self + Field0Offset, n), Load(m, other + Field0Offset, n))
Owned_ge(m, self, other, n) ==
    T_ge(Load(m, self + Field0Offset, n), Load(m, other + Field0Offset, n))
Owned_cmp(m, self, other, n) ==
    T_cmp(Load(m, self + Field0Offset, n), Load(m, other + Field0Offset, n))

\* ---- the API specification: two bindings used through Owned's interface ----

NoHist == [kind |-> "none", init |-> <<>>, fresh |-> FALSE, last |-> <<>>, ref |-> Null]

TestIdle ==
    /\ pc = "idle" /\ key = Null /\ place = Null /\ idx = 0 /\ moved = FALSE

Init ==
    /\ mem = <<>>
    /\ objs = [o \in Objs |-> Null]
    /\ hist = [o \in Objs |-> NoHist]
    /\ ret = [op |-> "init"]
    /\ news = 0
    /\ TestIdle

TestVars == <<pc, key, place, idx, moved>>

\* let o = Owned::new(v);
New(o, v) ==
    /\ objs[o] = Null
    /\ news < MaxNew
    /\ mem' = Alloc(mem, OwnedBytes(Owned_new(v)))
    /\ objs' = [objs EXCEPT ![o] = AllocBase(mem)]
    /\ hist' = [hist EXCEPT ![o] =
                   [kind |-> "new", init |-> v, fresh |-> TRUE, last |-> v, ref |-> Null]]
    /\ ret' = [op |-> "new", obj |-> o]
    /\ news' = news + 1
    /\ UNCHANGED TestVars

\* let o = Owned::default();
Default(o) ==
    /\ objs[o] = Null
    /\ news < MaxNew
    /\ mem' = Alloc(mem, OwnedBytes(Owned_default(ArrLen)))
    /\ objs' = [objs EXCEPT ![o] = AllocBase(mem)]
    /\ hist' = [hist EXCEPT ![o] =
                   [kind |-> "default", init |-> <<>>, fresh |-> TRUE,
                    last |-> OwnedBytes(Owned_default(ArrLen)), ref |-> Null]]
    /\ ret' = [op |-> "default", obj |-> o]
    /\ news' = news + 1
    /\ UNCHANGED TestVars

NoteRef(h, p) == [h EXCEPT !.ref = IF @ = Null THEN p ELSE @]

\* *o.deref(), *o.as_ref(), *o.borrow()
Read(o, acc) ==
    /\ objs[o] # Null
    /\ LET p == Ref(acc, objs[o])
       IN  /\ ret' = [op |-> acc, obj |-> o, addr |-> p, val |-> Load(mem, p, ArrLen)]
           /\ hist' = [hist EXCEPT ![o] = NoteRef(@, p)]
    /\ UNCHANGED <<mem, objs, news>>
    /\ UNCHANGED TestVars

\* *o.deref_mut() = v, *o.as_mut() = v, *o.borrow_mut() = v
Write(o, acc, v) ==
    /\ objs[o] # Null
    /\ LET p == Ref(acc, objs[o])
       IN  /\ mem' = Store(mem, p, v)
           /\ ret' = [op |-> acc, obj |-> o, addr |-> p, val |-> v]
           /\ hist' = [hist EXCEPT ![o] = [NoteRef(@, p) EXCEPT !.fresh = FALSE, !.last = v]]
    /\ UNCHANGED <<objs, news>>
    /\ UNCHANGED TestVars

\* o.deref_mut()[i] = x, and the same through as_mut and borrow_mut
WriteIdx(o, acc, i, x) ==
    /\ objs[o] # Null
    /\ LET p == Ref(acc, objs[o])
       IN  /\ mem' = Poke(mem, p + i, x)
           /\ ret' = [op |-> acc, obj |-> o, addr |-> p, val |-> <<i, x>>]
           /\ hist' = [hist EXCEPT ![o] =
                          [NoteRef(@, p) EXCEPT !.fresh = FALSE, !.last[i + 1] = x]]
    /\ UNCHANGED <<objs, news>>
    /\ UNCHANGED TestVars

\* o1 == o2, o1 != o2, o1.partial_cmp(&o2), o1 < o2, ..., o1.cmp(&o2)
Compare(o1, o2) ==
    /\ objs[o1] # Null /\ objs[o2] # Null
    /\ LET s == objs[o1]
           t == objs[o2]
       IN  ret' = [op |-> "compare", obj |-> o1, other |-> o2,
                   eq |-> Owned_eq(mem, s, t, ArrLen),
                   ne |-> Owned_ne(mem, s, t, ArrLen),
                   partial_cmp |-> Owned_partial_cmp(mem, s, t, ArrLen),
                   lt |-> Owned_lt(mem, s, t, ArrLen),
                   le |-> Owned_le(mem, s, t, ArrLen),
                   gt |-> Owned_gt(mem, s, t, ArrLen),
                   ge |-> Owned_ge(mem, s, t, ArrLen),
                   cmp |-> Owned_cmp(mem, s, t, ArrLen)]
    /\ UNCHANGED <<mem, objs, hist, news>>
    /\ UNCHANGED TestVars

\* o.hash(&mut state), the hasher having been fed `fed0` before
HashStates == {<<>>, <<9>>}

HashOp(o, fed0) ==
    /\ objs[o] # Null
    /\ ret' = [op |-> "hash", obj |-> o, fed0 |-> fed0,
               fed |-> Owned_hash(mem, objs[o], ArrLen, fed0)]
    /\ UNCHANGED <<mem, objs, hist, news>>
    /\ UNCHANGED TestVars

\* format!("{:?}", o) and format!("{:#?}", o)
Fmt(o, alt) ==
    /\ objs[o] # Null
    /\ ret' = [op |-> "fmt", obj |-> o, alt |-> alt,
               out |-> Owned_fmt(mem, objs[o], ArrLen,
                                 [alternate |-> alt, buf |-> <<>>]).buf]
    /\ UNCHANGED <<mem, objs, hist, news>>
    /\ UNCHANGED TestVars

\* The binding goes out of scope: Owned has no Drop, its storage is released as it is.
EndScope(o) ==
    /\ objs[o] # Null
    /\ mem' = Release(mem, objs[o], ArrLen)
    /\ objs' = [objs EXCEPT ![o] = Null]
    /\ hist' = [hist EXCEPT ![o] = NoHist]
    /\ ret' = [op |-> "end", obj |-> o]
    /\ UNCHANGED news
    /\ UNCHANGED TestVars

\* The accessor specification: one binding, constructed, read and written
\* through the six accessors, released and constructed again elsewhere.
Next ==
    \/ \E v \in Values : New("a", v)
    \/ Default("a")
    \/ \E acc \in ReadAcc : Read("a", acc)
    \/ \E acc \in WriteAcc, v \in Values : Write("a", acc, v)
    \/ \E acc \in WriteAcc, i \in 0..(ArrLen - 1), x \in Cells : WriteIdx("a", acc, i, x)
    \/ EndScope("a")

Spec == Init /\ [][Next]_vars

\* The delegation specification: two bindings at independent addresses,
\* compared, hashed and formatted.
NextDelegate ==
    \/ \E o \in Objs, v \in Values : New(o, v)
    \/ \E o \in Objs : Default(o)
    \/ \E o1 \in Objs, o2 \in Objs : Compare(o1, o2)
    \/ \E o \in Objs, fed0 \in HashStates : HashOp(o, fed0)
    \/ \E o \in Objs, alt \in BOOLEAN : Fmt(o, alt)
    \/ \E o \in Objs : EndScope(o)

SpecDelegate == Init /\ [][NextDelegate]_vars

\* ---- ClearOnDrop<T, P>, the wrapper Owned is plugged into ----

\* ClearOnDrop::new(place): the struct holds the owner it is given.
ClearOnDrop_new(p) == [_place |-> p]
ClearOnDropBytes(c) == OwnedBytes(c._place)

\* Deref and DerefMut forward to the owner's.
ClearOnDrop_deref(self) == deref(self + PlaceOffset)
ClearOnDrop_deref_mut(self) == deref_mut(self + PlaceOffset)

\* Drop: every cell of the target of deref_mut is overwritten with zero.
ClearOnDrop_drop(m, self, n) == Store(m, ClearOnDrop_deref_mut(self), Zeros(n))

\* ---- moves and raw pointers ----

\* A move by value copies the bytes to the destination's fresh storage;
\* the source's storage stays as it is until its own scope ends.
Move(m, src, n) == Alloc(m, Load(m, src, n))

\* p.offset(i) and &p[i]
Offset(p, i) == p + i

\* *p for a raw pointer: the cell, or anything at all once its storage is released.
ReadOutcomes(m, p) == IF Peek(m, p) = Dead THEN 0..MaxGarbage ELSE {Peek(m, p)}

\* ---- tests::owned and the doc example of Owned ----

TestInit ==
    /\ mem = <<>>
    /\ objs = [o \in Objs |-> Null]
    /\ hist = [o \in Objs |-> NoHist]
    /\ ret = [op |-> "init"]
    /\ news = 0
    /\ pc = "start" /\ key = Null /\ place = Null /\ idx = 0 /\ moved = FALSE

ApiVars == <<objs, hist, news>>

\* Owned::new([1,2,3,4,5,6,7]): the temporary handed to ClearOnDrop::new
T_OwnedNew ==
    /\ pc = "start"
    /\ mem' = Alloc(mem, OwnedBytes(Owned_new(TestArr)))
    /\ key' = AllocBase(mem)
    /\ pc' = "made"
    /\ ret' = [op |-> "Owned::new"]
    /\ UNCHANGED <<place, idx, moved>>
    /\ UNCHANGED ApiVars

\* let mut key = ClearOnDrop::new(..): the temporary is moved into `key`
T_ClearOnDropNew ==
    /\ pc = "made"
    /\ LET c == ClearOnDrop_new([f0 |-> Load(mem, key, N)])
       IN  mem' = Release(Alloc(mem, ClearOnDropBytes(c)), key, N)
    /\ key' = AllocBase(mem)
    /\ pc' = "bound"
    /\ ret' = [op |-> "ClearOnDrop::new"]
    /\ UNCHANGED <<place, idx, moved>>
    /\ UNCHANGED ApiVars

\* key[5] = 3;
T_IndexWrite ==
    /\ pc = "bound"
    /\ mem' = Poke(mem, Offset(ClearOnDrop_deref_mut(key), TestIdx), TestVal)
    /\ pc' = "written"
    /\ ret' = [op |-> "index_mut"]
    /\ UNCHANGED <<key, place, idx, moved>>
    /\ UNCHANGED ApiVars

\* place = &key[0];
T_Capture ==
    /\ pc = "written"
    /\ place' = Offset(ClearOnDrop_deref(key), 0)
    /\ pc' = "captured"
    /\ ret' = [op |-> "capture"]
    /\ UNCHANGED <<mem, key, idx, moved>>
    /\ UNCHANGED ApiVars

\* ::std::mem::drop(key); (the line the test leaves commented out): `key` is
\* moved into drop's parameter, which is dropped and released there.
T_MemDrop ==
    /\ pc = "captured"
    /\ LET arg == AllocBase(mem)
       IN  mem' = Release(ClearOnDrop_drop(Move(mem, key, N), arg, N), arg, N)
    /\ moved' = TRUE
    /\ pc' = "moved_out"
    /\ ret' = [op |-> "mem::drop"]
    /\ UNCHANGED <<key, place, idx>>
    /\ UNCHANGED ApiVars

\* The closing brace, first half: the drop glue of `key` runs, unless `key`
\* was moved out.
T_ScopeEndDrop ==
    /\ pc \in {"captured", "moved_out"}
    /\ mem' = IF moved THEN mem ELSE ClearOnDrop_drop(mem, key, N)
    /\ pc' = "dropped"
    /\ ret' = [op |-> "drop"]
    /\ UNCHANGED <<key, place, idx, moved>>
    /\ UNCHANGED ApiVars

\* The closing brace, second half: the storage of `key` is released.
T_ScopeEndRelease ==
    /\ pc = "dropped"
    /\ mem' = Release(mem, key, N)
    /\ pc' = "loop"
    /\ idx' = 0
    /\ ret' = [op |-> "release"]
    /\ UNCHANGED <<key, place, moved>>
    /\ UNCHANGED ApiVars

\* for i in 0..7 { assert_eq!(*place.offset(i), 0) }: one iteration
T_LoopRead ==
    /\ pc = "loop"
    /\ idx < N
    /\ \E x \in ReadOutcomes(mem, Offset(place, idx)) :
          /\ ret' = [op |-> "read", i |-> idx, val |-> x]
          /\ IF x = 0 THEN idx' = idx + 1 /\ pc' = pc
                      ELSE idx' = idx /\ pc' = "panicked"
    /\ UNCHANGED <<mem, key, place, moved>>
    /\ UNCHANGED ApiVars

\* the loop is over: the test passes
T_LoopEnd ==
    /\ pc = "loop"
    /\ idx = N
    /\ pc' = "passed"
    /\ ret' = [op |-> "end"]
    /\ UNCHANGED <<mem, key, place, idx, moved>>
    /\ UNCHANGED ApiVars

NextTest ==
    \/ T_OwnedNew
    \/ T_ClearOnDropNew
    \/ T_IndexWrite
    \/ T_Capture
    \/ T_MemDrop
    \/ T_ScopeEndDrop
    \/ T_ScopeEndRelease
    \/ T_LoopRead
    \/ T_LoopEnd

SpecTest == TestInit /\ [][NextTest]_vars

\* ---- the claims ----

Accessors == ReadAcc \cup WriteAcc

\* C2: a container built by Owned::new(v) and not written since, read through
\* deref, as_ref or borrow, yields v.
C2_ConstructThenRead ==
    (ret.op \in ReadAcc /\ hist[ret.obj].kind = "new" /\ hist[ret.obj].fresh)
        => ret.val = hist[ret.obj].init

\* C2 witness: a fresh container built from a non-default value has been read.
C2_Witness ==
    /\ ret.op \in ReadAcc
    /\ hist[ret.obj].kind = "new" /\ hist[ret.obj].fresh
    /\ hist[ret.obj].init # Zeros(ArrLen)
    /\ ret.val = hist[ret.obj].init

\* C3: once the container was written through deref_mut, as_mut or borrow_mut,
\* a read through deref, as_ref or borrow yields exactly what the writes left.
C3_WriteThenRead ==
    (ret.op \in ReadAcc /\ hist[ret.obj].kind # "none" /\ ~hist[ret.obj].fresh)
        => ret.val = hist[ret.obj].last

\* C3 witness: a read after writes returned something else than the container
\* was built with.
C3_Witness ==
    /\ ret.op \in ReadAcc
    /\ hist[ret.obj].kind = "new" /\ ~hist[ret.obj].fresh
    /\ ret.val = hist[ret.obj].last
    /\ ret.val # hist[ret.obj].init

\* C4: every accessor call returns the address the first accessor call of this
\* container returned, which is the address of the slot.
C4_AddressStability ==
    ret.op \in Accessors =>
        /\ ret.addr = hist[ret.obj].ref
        /\ ret.addr = objs[ret.obj] + Field0Offset

\* C4 witness: a read accessor was called after writes, on a container that
\* does not sit at the first address.
C4_Witness ==
    /\ ret.op \in ReadAcc
    /\ ~hist[ret.obj].fresh
    /\ ret.addr = hist[ret.obj].ref
    /\ ret.addr > 1

\* C5: eq, ne, partial_cmp, lt, le, gt, ge and cmp on two containers give what
\* the same operation gives on their contents, and eq holds iff the contents
\* are equal, wherever the containers are stored.
C5_ContentComparison ==
    ret.op = "compare" =>
        LET a == hist[ret.obj].last
            b == hist[ret.other].last
        IN  /\ ret.eq = (a = b)
            /\ ret.eq = T_eq(a, b)
            /\ ret.ne = T_ne(a, b)
            /\ ret.partial_cmp = T_partial_cmp(a, b)
            /\ ret.lt = T_lt(a, b)
            /\ ret.le = T_le(a, b)
            /\ ret.gt = T_gt(a, b)
            /\ ret.ge = T_ge(a, b)
            /\ ret.cmp = T_cmp(a, b)

\* C5 witness: two containers at different addresses with equal, non-default
\* contents have been compared.
C5_Witness ==
    /\ ret.op = "compare"
    /\ objs[ret.obj] # objs[ret.other]
    /\ hist[ret.obj].last = hist[ret.other].last
    /\ hist[ret.obj].last # Zeros(ArrLen)
    /\ ret.eq

\* C6: hashing a container feeds the hasher what hashing its content feeds it,
\* and leaves the content as it was.
C6_ContentHash ==
    ret.op = "hash" =>
        /\ ret.fed = T_hash(hist[ret.obj].last, ret.fed0)
        /\ Load(mem, objs[ret.obj] + Field0Offset, ArrLen) = hist[ret.obj].last

\* C6 witness: a container that does not sit at the first address was hashed
\* into a hasher that had been fed before.
C6_Witness ==
    /\ ret.op = "hash"
    /\ objs[ret.obj] > 1
    /\ ret.fed0 # <<>>
    /\ hist[ret.obj].last # Zeros(ArrLen)

C8_Default ==
    (ret.op \in ReadAcc /\ hist[ret.obj].kind = "default" /\ hist[ret.obj].fresh)
        => ret.val = T_default(ArrLen)

\* C8 witness: a default-built container has been read.
C8_Witness ==
    /\ ret.op \in ReadAcc
    /\ hist[ret.obj].kind = "default" /\ hist[ret.obj].fresh

\* C9 as amended: after key[5] = 3 the wrapped array is [1,2,3,4,5,3,7].
C9_IndexWrite ==
    pc \in {"written", "captured"} =>
        Load(mem, ClearOnDrop_deref(key), N) = <<1, 2, 3, 4, 5, 3, 7>>

\* C9 witness: key[5] = 3 has just been executed.
C9_Witness == pc = "written" /\ ret.op = "index_mut"

\* C9 as stated: after key[5] = 3 the wrapped array is [1,2,3,4,3,6,7].
C9_Original ==
    pc \in {"written", "captured"} =>
        Load(mem, ClearOnDrop_deref(key), N) = <<1, 2, 3, 4, 3, 6, 7>>

====
